---------------------------- MODULE Spec2Model ----------------------------
(***************************************************************************)
(* Model of the pizza ordering backend in src/app.py: the pricing helpers, *)
(* the topping validator, the in-memory cart store, the mock payment       *)
(* authorizer and the order ledger.                                        *)
(*                                                                         *)
(* Money is counted in whole cents.  Every price of the table is a         *)
(* multiple of 0.05, so each float sum or product of the code lies within  *)
(* 1e-12 of a whole number of cents and round(x, 2) returns that number;   *)
(* the one place where round() meets an exact half cent is the tax, and    *)
(* there the binary64 arithmetic of the code is carried out bit by bit     *)
(* (see round_tax).                                                        *)
(*                                                                         *)
(* Python's None is the empty sequence <<>> and a present optional value v *)
(* is <<v>>.  Strings the code inspects character by character (card       *)
(* number, gift card code) are sequences of one-character strings.         *)
(***************************************************************************)
EXTENDS Integers, Sequences, FiniteSets, TLC

\* ------------------------------------------------------------------ bounds
\* Requests handled in a behaviour of Spec.
MaxCalls == 5
\* Length of the topping lists validate_toppings is applied to in SpecToppings.
MaxToppings == 4
\* Trailing characters of a card number that vary in SpecAuth.
CardTailLen == 4

\* ------------------------------------------------------- menu and pricing
PRICES ==
    [size |-> [small |-> 1000, medium |-> 1300, large |-> 1600],
     crust |-> [thin |-> 0, hand_tossed |-> 0, deep_dish |-> 200, gluten_free |-> 300],
     cheese |-> [light |-> -50, normal |-> 0, extra |-> 150],
     crust_flavor |-> [none |-> 0, garlic_butter |-> 75, sesame |-> 50],
     drizzle |-> [none |-> 0, ranch |-> 75, hot_honey |-> 95],
     topping_each |-> 125,
     drink |-> [none |-> 0, coke |-> 225, diet_coke |-> 225, sprite |-> 225,
                water |-> 150, root_beer |-> 225],
     tax_rate |-> 825]          \* 0.0825, in 1/10000

TOPPINGS ==
    << "pepperoni", "sausage", "bacon", "ham",
       "mushrooms", "onions", "green_peppers", "jalapenos",
       "black_olives", "pineapple", "spinach", "tomatoes" >>

Range(s) == {s[i] : i \in DOMAIN s}

\* A raised HTTPException: the status code and the detail.
HTTPException(code, detail) == [exc |-> TRUE, status_code |-> code, detail |-> detail]
\* A normal return.
Return(v) == [exc |-> FALSE, value |-> v]

\* ------------------------------------------------------- topping validator
\* The first loop: the leftmost entry outside the catalog raises.
RECURSIVE FirstInvalid(_)
FirstInvalid(toppings) ==
    IF toppings = <<>> THEN <<>>
    ELSE IF Head(toppings) \notin Range(TOPPINGS) THEN <<Head(toppings)>>
    ELSE FirstInvalid(Tail(toppings))

\* Mutant: of a repeated entry the last occurrence is kept.
RECURSIVE DedupKeepLast(_, _)
DedupKeepLast(clean, seen) ==
    IF clean = <<>> THEN <<>>
    ELSE IF Head(clean) \in Range(Tail(clean)) THEN DedupKeepLast(Tail(clean), seen)
    ELSE <<Head(clean)>> \o DedupKeepLast(Tail(clean), seen)

\* The second loop: keep an entry unless it was seen before.
RECURSIVE Dedup(_, _)
Dedup(clean, seen) ==
    IF clean = <<>> THEN <<>>
    ELSE IF Head(clean) \in seen THEN Dedup(Tail(clean), seen)
    ELSE <<Head(clean)>> \o Dedup(Tail(clean), seen \cup {Head(clean)})

validate_toppings(toppings) ==
    LET bad == FirstInvalid(toppings)
    IN  IF bad # <<>> THEN HTTPException(400, <<"Invalid topping", bad[1]>>)
        ELSE Return(Dedup(toppings, {}))

\* ----------------------------------------------------------------- prices
price_pizza(custom) ==
    LET toppings == validate_toppings(custom.toppings)
    IN  IF toppings.exc THEN toppings
        ELSE Return(PRICES.size[custom.size] + PRICES.crust[custom.crust]
                    + PRICES.cheese[custom.cheese]
                    + PRICES.crust_flavor[custom.crust_flavor]
                    + PRICES.drizzle[custom.drizzle]
                    + PRICES.topping_each * Len(toppings.value))

price_drink(drink) == Return(PRICES.drink[drink])

unit_price(item) ==
    IF item.kind = "pizza" THEN price_pizza(item.customization)
    ELSE price_drink(item.drink)

RECURSIVE cart_subtotal_from(_, _)
cart_subtotal_from(items, total) ==
    IF items = <<>> THEN Return(total)
    ELSE LET unit == unit_price(Head(items))
         IN  IF unit.exc THEN unit
             ELSE cart_subtotal_from(Tail(items), total + unit.value * Head(items).qty)

cart_subtotal(cart) == cart_subtotal_from(cart.items, 0)

\* ------------------------------------------- binary64 arithmetic of the tax
\* Natural numbers beyond 32 bits: little-endian sequences of limbs.
Base == 2^14

RECURSIVE BigFromInt(_)
BigFromInt(n) == IF n = 0 THEN <<>> ELSE <<n % Base>> \o BigFromInt(n \div Base)

RECURSIVE BigTrim(_)
BigTrim(a) ==
    IF a = <<>> THEN <<>>
    ELSE IF a[Len(a)] = 0 THEN BigTrim(SubSeq(a, 1, Len(a) - 1))
    ELSE a

RECURSIVE BigAddC(_, _, _)
BigAddC(a, b, c) ==
    IF a = <<>> /\ b = <<>> THEN BigFromInt(c)
    ELSE LET x == (IF a = <<>> THEN 0 ELSE Head(a)) + (IF b = <<>> THEN 0 ELSE Head(b)) + c
         IN  <<x % Base>> \o BigAddC(IF a = <<>> THEN <<>> ELSE Tail(a),
                                     IF b = <<>> THEN <<>> ELSE Tail(b), x \div Base)

BigAdd(a, b) == BigTrim(BigAddC(a, b, 0))

\* a * m for one limb m.
RECURSIVE BigMulLimb(_, _, _)
BigMulLimb(a, m, c) ==
    IF a = <<>> THEN BigFromInt(c)
    ELSE LET x == Head(a) * m + c
         IN  <<x % Base>> \o BigMulLimb(Tail(a), m, x \div Base)

RECURSIVE BigMulC(_, _)
BigMulC(a, b) ==
    IF b = <<>> THEN <<>>
    ELSE BigAddC(BigMulLimb(a, Head(b), 0), <<0>> \o BigMulC(a, Tail(b)), 0)

BigMul(a, b) == BigTrim(BigMulC(a, b))

\* Quotient and remainder of a by a small d.
RECURSIVE BigDivMod(_, _)
BigDivMod(a, d) ==
    IF a = <<>> THEN [q |-> <<>>, r |-> 0]
    ELSE LET hi == BigDivMod(Tail(a), d)
             x == hi.r * Base + Head(a)
         IN  [q |-> <<x \div d>> \o hi.q, r |-> x % d]

RECURSIVE BigLess(_, _)
BigLess(a, b) ==
    IF Len(a) # Len(b) THEN Len(a) < Len(b)
    ELSE IF a = <<>> THEN FALSE
    ELSE IF a[Len(a)] # b[Len(b)] THEN a[Len(a)] < b[Len(b)]
    ELSE BigLess(SubSeq(a, 1, Len(a) - 1), SubSeq(b, 1, Len(b) - 1))

BigOdd(a) == a # <<>> /\ a[1] % 2 = 1

\* a * 2^n
BigShl(a, n) ==
    BigTrim([i \in 1..(n \div 14) |-> 0] \o BigMulLimb(a, 2^(n % 14), 0))

\* floor(a / 2^n), and whether bits were dropped.
BigShr(a, n) ==
    LET j == n \div 14
        low == SubSeq(a, 1, IF j < Len(a) THEN j ELSE Len(a))
        dm == BigDivMod(SubSeq(a, j + 1, Len(a)), 2^(n % 14))
    IN  [q |-> BigTrim(dm.q), sticky |-> dm.r # 0 \/ \E i \in DOMAIN low : low[i] # 0]

\* a / 2^n rounded to nearest, ties to even (n >= 1).
RoundShr(a, n) ==
    LET f == BigShr(a, n - 1)
        q == BigTrim(BigDivMod(f.q, 2).q)
        up == BigOdd(f.q) /\ (f.sticky \/ BigOdd(q))
    IN  IF up THEN BigAdd(q, <<1>>) ELSE q

RECURSIVE Log2Floor(_)
Log2Floor(n) == IF n <= 1 THEN 0 ELSE 1 + Log2Floor(n \div 2)

\* The binary64 nearest to cents/100 (cents >= 100), as mantissa m and
\* exponent e: the value m * 2^-e, with 2^52 <= m <= 2^53.
DoubleOfCents(cents) ==
    LET e == 52 - Log2Floor(cents \div 100)
        dm == BigDivMod(BigShl(BigFromInt(cents), e), 100)
        q == BigTrim(dm.q)
        up == 2 * dm.r > 100 \/ (2 * dm.r = 100 /\ BigOdd(q))
    IN  [m |-> IF up THEN BigAdd(q, <<1>>) ELSE q, e |-> e]

\* The binary64 literal 0.0825 = 0x1.51eb851eb851fp-4 = 5944751508129055 * 2^-56.
TaxRateDouble ==
    [m |-> BigAdd(BigMul(BigFromInt(594475150), BigFromInt(10000000)), BigFromInt(8129055)),
     e |-> 56]

\* The binary64 product of two doubles (round to nearest, ties to even).
DoubleMul(x, y) ==
    LET p == BigMul(x.m, y.m)
        n == IF BigLess(p, BigShl(<<1>>, 105)) THEN 52 ELSE 53
    IN  [m |-> RoundShr(p, n), e |-> x.e + y.e - n]

\* x > num / den for a double x (den, num small and positive).
DoubleAbove(x, num, den) ==
    BigLess(BigShl(BigFromInt(num), x.e), BigMul(x.m, BigFromInt(den)))

\* x = num / den for a double x.
DoubleEquals(x, num, den) ==
    BigShl(BigFromInt(num), x.e) = BigMul(x.m, BigFromInt(den))

\* Mutant: the tax cut off below the cent instead of rounded.
truncate_tax(subtotal) == (subtotal * PRICES.tax_rate) \div 10000

\* tax = round(subtotal * PRICES["tax_rate"], 2), in cents.  Off a half cent
\* the float error is far below the distance to the nearest half cent; on an
\* exact half cent (subtotal * 825 = 5000 mod 10000) round() goes by the side
\* of the half cent on which the binary64 product lies, and to the even cent
\* when the product is the half cent itself.
round_tax(subtotal) ==
    LET n == subtotal * PRICES.tax_rate
        q == n \div 10000
        r == n % 10000
        x == DoubleMul(DoubleOfCents(subtotal), TaxRateDouble)
    IN  IF r < 5000 THEN q
        ELSE IF r > 5000 THEN q + 1
        ELSE IF DoubleEquals(x, 2 * q + 1, 200) THEN q + (q % 2)
        ELSE IF DoubleAbove(x, 2 * q + 1, 200) THEN q + 1
        ELSE q

compute_totals(cart) ==
    LET subtotal == cart_subtotal(cart)
    IN  IF subtotal.exc THEN subtotal
        ELSE LET tax == round_tax(subtotal.value)
             IN  Return([subtotal |-> subtotal.value, tax |-> tax,
                         total |-> subtotal.value + tax])

\* ------------------------------------------------- priced views of a cart
\* model_dump() of an item: a dict with the item's fields, a deep copy (the
\* model's values have no identity, so the copy is the value itself).
model_dump(item) == item

\* it.qty or 1
QtyOr1(qty) == IF qty = 0 THEN 1 ELSE qty

RECURSIVE enrich_items(_)
enrich_items(items) ==
    IF items = <<>> THEN Return(<<>>)
    ELSE LET it == Head(items)
             unit == unit_price(it)
             rest == enrich_items(Tail(items))
         IN  IF unit.exc THEN unit
             ELSE IF rest.exc THEN rest
             ELSE Return(<< model_dump(it) @@
                            [unit_price |-> unit.value,
                             line_total |-> unit.value * QtyOr1(it.qty)] >> \o rest.value)

enrich_items_with_prices(cart) ==
    LET enriched == enrich_items(cart.items)
    IN  IF enriched.exc THEN enriched
        ELSE Return([cart_id |-> cart.cart_id, items |-> enriched.value])

PizzaSize == {"small", "medium", "large"}
CrustType == {"thin", "hand_tossed", "deep_dish", "gluten_free"}
SauceType == {"tomato", "alfredo", "bbq", "pesto"}
CheeseLevel == {"light", "normal", "extra"}
BakeLevel == {"normal", "well_done", "light_bake"}
CutStyle == {"pie", "square"}
CrustFlavor == {"none", "garlic_butter", "sesame"}
Drizzle == {"none", "ranch", "hot_honey"}
DrinkType == {"none", "coke", "diet_coke", "sprite", "water", "root_beer"}

\* PizzaCustomization.model_validate(custom_raw): the dict back into a model;
\* a field outside its Literal type is a validation error (an unhandled one:
\* the fallback constructor raises it again).
model_validate(custom_raw) ==
    IF /\ custom_raw.size \in PizzaSize /\ custom_raw.crust \in CrustType
       /\ custom_raw.sauce \in SauceType /\ custom_raw.cheese \in CheeseLevel
       /\ custom_raw.bake \in BakeLevel /\ custom_raw.cut \in CutStyle
       /\ custom_raw.crust_flavor \in CrustFlavor /\ custom_raw.drizzle \in Drizzle
    THEN Return(custom_raw)
    ELSE HTTPException(500, <<"ValidationError">>)

RECURSIVE enrich_order_items(_)
enrich_order_items(items) ==
    IF items = <<>> THEN Return(<<>>)
    ELSE LET d == Head(items)
             qty == QtyOr1(d.qty)
             custom_obj == model_validate(d.customization)
             unit == IF d.kind = "pizza"
                     THEN (IF custom_obj.exc THEN custom_obj ELSE price_pizza(custom_obj.value))
                     ELSE price_drink(d.drink)
             rest == enrich_order_items(Tail(items))
         IN  IF unit.exc THEN unit
             ELSE IF rest.exc THEN rest
             ELSE Return(<< d @@ [unit_price |-> unit.value,
                                  line_total |-> unit.value * qty] >> \o rest.value)

\* --------------------------------------------------- mock payment processor
None == <<>>
Some(v) == <<v>>

\* str.isdigit() on the characters the inputs use.
Digits == {"0", "1", "2", "3", "4", "5", "6", "7", "8", "9"}

RECURSIVE OnlyDigits(_)
OnlyDigits(s) ==
    IF s = <<>> THEN <<>>
    ELSE IF Head(s) \in Digits THEN <<Head(s)>> \o OnlyDigits(Tail(s))
    ELSE OnlyDigits(Tail(s))

\* "".join(ch for ch in (self.card_number or "") if ch.isdigit())
normalized_card_digits(payment) ==
    OnlyDigits(IF payment.card_number = None THEN <<>> ELSE payment.card_number[1])

\* getattr(self, k) in (None, "") for a string field; for an int field only None.
MissingStr(opt) == opt = None \/ opt[1] = <<>>
MissingInt(opt) == opt = None

SelectSeq2(s, keep) ==
    LET F[i \in 0..Len(s)] ==
            IF i = 0 THEN <<>>
            ELSE IF keep[i] THEN Append(F[i - 1], s[i]) ELSE F[i - 1]
    IN  F[Len(s)]

validate_required(payment) ==
    LET missing == SelectSeq2(<<"card_number", "exp_month", "exp_year", "cvv", "zip_code">>,
                              << MissingStr(payment.card_number), MissingInt(payment.exp_month),
                                 MissingInt(payment.exp_year), MissingStr(payment.cvv),
                                 MissingStr(payment.zip_code) >>)
    IN  IF payment.method = "card" /\ missing # <<>>
        THEN HTTPException(400, <<"Missing card fields">> \o missing)
        ELSE IF payment.method = "giftcard" /\ MissingStr(payment.code)
        THEN HTTPException(400, <<"Missing gift card code">>)
        ELSE Return(None)

Whitespace == {" "}

RECURSIVE LStrip(_)
LStrip(s) == IF s # <<>> /\ Head(s) \in Whitespace THEN LStrip(Tail(s)) ELSE s

RECURSIVE RStrip(_)
RStrip(s) ==
    IF s # <<>> /\ s[Len(s)] \in Whitespace THEN RStrip(SubSeq(s, 1, Len(s) - 1)) ELSE s

Strip(s) == RStrip(LStrip(s))

\* str.upper() on the letters the inputs use.
LowerLetters == <<"d", "e", "c", "l", "i", "n", "g", "o">>
UpperLetters == <<"D", "E", "C", "L", "I", "N", "G", "O">>
UpperCh(ch) ==
    IF \E i \in DOMAIN LowerLetters : LowerLetters[i] = ch
    THEN UpperLetters[CHOOSE i \in DOMAIN LowerLetters : LowerLetters[i] = ch]
    ELSE ch
Upper(s) == [i \in DOMAIN s |-> UpperCh(s[i])]

\* digits[-4:] if len(digits) >= 4 else "????"
Last4(digits) ==
    IF Len(digits) >= 4 THEN SubSeq(digits, Len(digits) - 3, Len(digits))
    ELSE <<"?", "?", "?", "?">>

EndsWith0000(digits) ==
    Len(digits) >= 4 /\ SubSeq(digits, Len(digits) - 3, Len(digits)) = <<"0", "0", "0", "0">>

\* Mutant: a card is taken as expired in its month of expiry.
exp_ok_strict(payment, now) ==
    \/ payment.exp_year[1] > now.year
    \/ (payment.exp_year[1] = now.year /\ payment.exp_month[1] > now.month)

\* exp_ok of mock_authorize, for the clock reading now = [year, month].
exp_ok(payment, now) ==
    \/ payment.exp_year[1] > now.year
    \/ (payment.exp_year[1] = now.year /\ payment.exp_month[1] >= now.month)

\* mock_authorize(payment, amount) at clock reading now; uuid is the value the
\* next uuid4() call returns.
mock_authorize(payment, amount, now, uuid) ==
    LET required == validate_required(payment)
        digits == normalized_card_digits(payment)
    IN  IF required.exc THEN required
        ELSE IF payment.method = "cash"
        THEN Return([status |-> "approved", auth_id |-> <<"cash">>, amount |-> amount])
        ELSE IF payment.method = "giftcard"
        THEN (IF Upper(Strip(payment.code[1])) = <<"D", "E", "C", "L", "I", "N", "E">>
              THEN Return([status |-> "declined", reason |-> "Mock gift card declined"])
              ELSE Return([status |-> "approved", auth_id |-> <<"gift_", uuid>>,
                           amount |-> amount]))
        ELSE IF ~exp_ok(payment, now)
        THEN Return([status |-> "declined", reason |-> "Card expired"])
        ELSE IF EndsWith0000(digits)
        THEN Return([status |-> "declined", reason |-> "Mock decline rule (ends with 0000)"])
        ELSE Return([status |-> "approved", auth_id |-> <<"auth_", uuid>>,
                     amount |-> amount, card_last4 |-> Last4(digits)])


\* ------------------------------------------------------------------- state
VARIABLES
    CARTS,      \* cart_id -> Cart
    ORDERS,     \* order_id -> order summary
    uuids,      \* how many uuid4() values have been drawn; the values are
                \* taken to be fresh, the n-th one drawn being n
    resp,       \* the last request and its response
    calls,      \* how many requests have been handled
    threads,    \* place_order requests in flight: thread -> its frame
    authPayment, authNow, authResult,   \* a mock_authorize call
    valInput, valFirst, valSecond       \* validate_toppings calls

storeVars == <<CARTS, ORDERS, uuids, resp, calls>>
authVars == <<authPayment, authNow, authResult>>
valVars == <<valInput, valFirst, valSecond>>
vars == <<CARTS, ORDERS, uuids, resp, calls, threads,
          authPayment, authNow, authResult, valInput, valFirst, valSecond>>

\* A call that has not returned yet.
Pending == [pending |-> TRUE]
IsPending(result) == DOMAIN result = {"pending"}

Put(d, k, v) == (k :> v) @@ d

\* The response to a request: the handler's return value with status 200, or
\* the HTTPException it raised.  Of the request, req keeps what addresses the
\* cart, the item or the order.
Response(op, req, result) ==
    [op |-> op, req |-> req,
     status_code |-> IF result.exc THEN result.status_code ELSE 200,
     body |-> IF result.exc THEN [detail |-> result.detail] ELSE result.value]

\* {"cart": cart, "totals": compute_totals(cart)}
CartAndTotals(cart) ==
    LET totals == compute_totals(cart)
    IN  IF totals.exc THEN totals ELSE Return([cart |-> cart, totals |-> totals.value])

\* ------------------------------------------------------------------ inputs
PlainCustom ==
    [size |-> "small", crust |-> "thin", sauce |-> "tomato", cheese |-> "normal",
     bake |-> "normal", cut |-> "pie", crust_flavor |-> "none", drizzle |-> "none",
     toppings |-> <<>>, instructions |-> ""]

ToppedCustom ==
    [size |-> "large", crust |-> "deep_dish", sauce |-> "bbq", cheese |-> "light",
     bake |-> "well_done", cut |-> "square", crust_flavor |-> "garlic_butter",
     drizzle |-> "hot_honey", toppings |-> <<"pepperoni", "pepperoni", "bacon">>,
     instructions |-> "no box"]

BadCustom == [PlainCustom EXCEPT !.toppings = <<"bacon", "anchovy", "kale">>]

\* Quantities satisfy Field(ge=1, le=20).
QtyInputs == {2}
UpdateQtyInputs == {1, 20}

PizzaItemInputs ==
    {[kind |-> "pizza", name |-> "Custom Pizza", customization |-> c, qty |-> q] :
        c \in {PlainCustom, ToppedCustom}, q \in QtyInputs}
    \cup {[kind |-> "pizza", name |-> "Custom Pizza", customization |-> BadCustom, qty |-> 1]}

DrinkItemInputs ==
    {[kind |-> "drink", drink |-> "water", qty |-> q] : q \in QtyInputs}
    \cup {[kind |-> "drink", drink |-> "none", qty |-> 1]}

UnknownCartId == <<"cart_", 0>>
UnknownOrderId == <<"order_", 0>>
CartIdInputs == DOMAIN CARTS \cup {UnknownCartId}
OrderIdInputs == DOMAIN ORDERS \cup {UnknownOrderId}

\* Indexes satisfy Field(ge=0); every valid one and the first two invalid ones
\* are tried.
IndexInputs(cart_id) ==
    IF cart_id \in DOMAIN CARTS THEN 0..(Len(CARTS[cart_id].items) + 1) ELSE {0}

CustomerInputs ==
    {[full_name |-> "Ada Lovelace", email |-> None, phone |-> "5550100",
      address_line1 |-> "1 Comet Way", address_line2 |-> "", city |-> "Austin",
      state |-> "TX", postal_code |-> "73301"]}

NoPayment ==
    [method |-> "cash", card_number |-> None, exp_month |-> None, exp_year |-> None,
     cvv |-> None, zip_code |-> None, code |-> None]

Clocks == {[year |-> 2026, month |-> 11]}

GoodCard ==
    [NoPayment EXCEPT !.method = "card",
        !.card_number = Some(<<"4","1","1","1","-","1","1","1","1","-","1","1","1","1","-","1","2","3","4">>),
        !.exp_month = Some(11), !.exp_year = Some(2026),
        !.cvv = Some(<<"1","2","3">>), !.zip_code = Some(<<"7","3","3","0","1">>)]

PaymentInputs ==
    { NoPayment,
      [NoPayment EXCEPT !.method = "giftcard"],
      [NoPayment EXCEPT !.method = "giftcard", !.code = Some(<<"g","o","l","d">>)],
      [NoPayment EXCEPT !.method = "giftcard", !.code = Some(<<" ","d","e","C","l","i","n","e"," ">>)],
      GoodCard,
      [GoodCard EXCEPT !.exp_month = Some(10)],
      [GoodCard EXCEPT !.card_number = Some(<<"4","1","1","1","1","1","1","1","1","1","1","1","0","0","0","0">>)],
      [GoodCard EXCEPT !.cvv = None, !.zip_code = None] }

PlaceOrderRequests ==
    {[cart_id |-> c, customer |-> cu, payment |-> p] :
        c \in CartIdInputs, cu \in CustomerInputs, p \in PaymentInputs}

\* ---------------------------------------------------------------- handlers
NoResponse == [op |-> "none", req |-> <<>>, status_code |-> 0, body |-> <<>>]

NoThreads == threads = <<>>
NoAuthCall == authPayment = NoPayment /\ authNow = [year |-> 0, month |-> 0] /\ authResult = Pending
NoValCall == valInput = <<>> /\ valFirst = Pending /\ valSecond = Pending

\* The process starts with empty stores.
NoRequests == resp = NoResponse /\ calls = 0
EmptyStores == CARTS = <<>> /\ ORDERS = <<>> /\ uuids = 0

Init == EmptyStores /\ NoRequests /\ NoThreads /\ NoAuthCall /\ NoValCall

\* One more request is handled; requests run one at a time, to completion.
Handled ==
    /\ calls < MaxCalls
    /\ calls' = calls + 1
    /\ UNCHANGED <<threads, authVars, valVars>>

create_cart ==
    LET cart_id == <<"cart_", uuids + 1>>
        cart == [cart_id |-> cart_id, items |-> <<>>]
    IN  /\ Handled
        /\ uuids' = uuids + 1
        /\ CARTS' = Put(CARTS, cart_id, cart)
        /\ resp' = Response("create_cart", <<>>, Return(cart))
        /\ UNCHANGED ORDERS

get_cart(cart_id) ==
    /\ Handled
    /\ IF cart_id \notin DOMAIN CARTS
       THEN resp' = Response("get_cart", [cart_id |-> cart_id],
                             HTTPException(404, <<"Cart not found">>))
       ELSE LET cart == CARTS[cart_id]
                totals == compute_totals(cart)
                cart_dict == enrich_items_with_prices(cart)
            IN  resp' = Response("get_cart", [cart_id |-> cart_id],
                                 IF totals.exc THEN totals
                                 ELSE IF cart_dict.exc THEN cart_dict
                                 ELSE Return([cart |-> cart_dict.value,
                                              totals |-> totals.value]))
    /\ UNCHANGED <<CARTS, ORDERS, uuids>>

\* Mutant: the item is appended before its toppings are validated.
add_pizza_append_first(cart_id, item) ==
    LET req == [cart_id |-> cart_id]
        toppings == validate_toppings(item.customization.toppings)
    IN  /\ Handled
        /\ IF cart_id \notin DOMAIN CARTS
           THEN /\ resp' = Response("add_pizza", req, HTTPException(404, <<"Cart not found">>))
                /\ UNCHANGED CARTS
           ELSE LET cart == [CARTS[cart_id] EXCEPT !.items = Append(@, item)]
                IN  /\ CARTS' = Put(CARTS, cart_id, cart)
                    /\ resp' = Response("add_pizza", req,
                                        IF toppings.exc THEN toppings ELSE CartAndTotals(cart))
        /\ UNCHANGED <<ORDERS, uuids>>

add_pizza(cart_id, item) ==
    LET req == [cart_id |-> cart_id]
        toppings == validate_toppings(item.customization.toppings)
    IN  /\ Handled
        /\ IF cart_id \notin DOMAIN CARTS
           THEN /\ resp' = Response("add_pizza", req, HTTPException(404, <<"Cart not found">>))
                /\ UNCHANGED CARTS
           ELSE IF toppings.exc
           THEN /\ resp' = Response("add_pizza", req, toppings)
                /\ UNCHANGED CARTS
           ELSE LET validated == [item EXCEPT !.customization.toppings = toppings.value]
                    cart == [CARTS[cart_id] EXCEPT !.items = Append(@, validated)]
                IN  /\ CARTS' = Put(CARTS, cart_id, cart)
                    /\ resp' = Response("add_pizza", req, CartAndTotals(cart))
        /\ UNCHANGED <<ORDERS, uuids>>

\* Mutant: the "none" placeholder is not rejected.
add_drink_unchecked(cart_id, item) ==
    LET req == [cart_id |-> cart_id]
    IN  /\ Handled
        /\ IF cart_id \notin DOMAIN CARTS
           THEN /\ resp' = Response("add_drink", req, HTTPException(404, <<"Cart not found">>))
                /\ UNCHANGED CARTS
           ELSE LET cart == [CARTS[cart_id] EXCEPT !.items = Append(@, item)]
                IN  /\ CARTS' = Put(CARTS, cart_id, cart)
                    /\ resp' = Response("add_drink", req, CartAndTotals(cart))
        /\ UNCHANGED <<ORDERS, uuids>>

add_drink(cart_id, item) ==
    LET req == [cart_id |-> cart_id]
    IN  /\ Handled
        /\ IF cart_id \notin DOMAIN CARTS
           THEN /\ resp' = Response("add_drink", req, HTTPException(404, <<"Cart not found">>))
                /\ UNCHANGED CARTS
           ELSE IF item.drink = "none"
           THEN /\ resp' = Response("add_drink", req,
                                    HTTPException(400, <<"Drink cannot be 'none' as an item">>))
                /\ UNCHANGED CARTS
           ELSE LET cart == [CARTS[cart_id] EXCEPT !.items = Append(@, item)]
                IN  /\ CARTS' = Put(CARTS, cart_id, cart)
                    /\ resp' = Response("add_drink", req, CartAndTotals(cart))
        /\ UNCHANGED <<ORDERS, uuids>>

update_qty(cart_id, index, qty) ==
    LET req == [cart_id |-> cart_id, index |-> index]
    IN  /\ Handled
        /\ IF cart_id \notin DOMAIN CARTS
           THEN /\ resp' = Response("update_qty", req, HTTPException(404, <<"Cart not found">>))
                /\ UNCHANGED CARTS
           ELSE IF index >= Len(CARTS[cart_id].items)
           THEN /\ resp' = Response("update_qty", req, HTTPException(400, <<"Invalid index">>))
                /\ UNCHANGED CARTS
           ELSE LET item == [CARTS[cart_id].items[index + 1] EXCEPT !.qty = qty]
                    cart == [CARTS[cart_id] EXCEPT !.items[index + 1] = item]
                IN  /\ CARTS' = Put(CARTS, cart_id, cart)
                    /\ resp' = Response("update_qty", req, CartAndTotals(cart))
        /\ UNCHANGED <<ORDERS, uuids>>

\* Mutant: pop() without the index removes the last item.
PopLast(items, index) == SubSeq(items, 1, Len(items) - 1)

\* list.pop(index) for 0 <= index < len(items)
Pop(items, index) ==
    SubSeq(items, 1, index) \o SubSeq(items, index + 2, Len(items))

remove_item(cart_id, index) ==
    LET req == [cart_id |-> cart_id, index |-> index]
    IN  /\ Handled
        /\ IF cart_id \notin DOMAIN CARTS
           THEN /\ resp' = Response("remove_item", req, HTTPException(404, <<"Cart not found">>))
                /\ UNCHANGED CARTS
           ELSE IF index >= Len(CARTS[cart_id].items)
           THEN /\ resp' = Response("remove_item", req, HTTPException(400, <<"Invalid index">>))
                /\ UNCHANGED CARTS
           ELSE LET cart == [CARTS[cart_id] EXCEPT !.items = Pop(@, index)]
                IN  /\ CARTS' = Put(CARTS, cart_id, cart)
                    /\ resp' = Response("remove_item", req, CartAndTotals(cart))
        /\ UNCHANGED <<ORDERS, uuids>>

clear_cart(cart_id) ==
    LET req == [cart_id |-> cart_id]
    IN  /\ Handled
        /\ IF cart_id \notin DOMAIN CARTS
           THEN /\ resp' = Response("clear_cart", req, HTTPException(404, <<"Cart not found">>))
                /\ UNCHANGED CARTS
           ELSE LET cart == [CARTS[cart_id] EXCEPT !.items = <<>>]
                IN  /\ CARTS' = Put(CARTS, cart_id, cart)
                    /\ resp' = Response("clear_cart", req, CartAndTotals(cart))
        /\ UNCHANGED <<ORDERS, uuids>>


\* Mutant: the order identifier is derived from the cart's.
order_id_of_cart(uuid, req) == <<"order_", req.cart_id[2]>>

\* "order_" + uuid4().hex[:12]
new_order_id(uuid, req) == <<"order_", uuid>>

\* Mutant: the items are snapshotted after the cart was cleared.
order_summary_after_clear(order_id, now, req, cart, totals, payment_result) ==
    Return([order_id |-> order_id,
            created_at_utc |-> now,
            customer |-> req.customer,
            items |-> <<>>,
            totals |-> totals,
            payment |-> payment_result,
            status |-> "placed"])

\* The order record place_order builds: the customer and the items are dumped
\* (copied) from the request and the cart, the items re-validated and re-priced.
order_summary(order_id, now, req, cart, totals, payment_result) ==
    LET items == enrich_order_items([i \in DOMAIN cart.items |-> model_dump(cart.items[i])])
    IN  IF items.exc THEN items
        ELSE Return([order_id |-> order_id,
                     created_at_utc |-> now,
                     customer |-> req.customer,
                     items |-> items.value,
                     totals |-> totals,
                     payment |-> payment_result,
                     status |-> "placed"])

\* How many uuid4() values mock_authorize draws for an approval.
AuthDraws(payment) == IF payment.method = "cash" THEN 0 ELSE 1

\* Mutant: the cart is cleared whatever the payment's outcome.
place_order_declined_clears(req, cart, totals, payment_result) ==
    /\ resp' = Response("place_order", [cart_id |-> req.cart_id],
                Return([ok |-> FALSE, message |-> "Payment declined",
                        payment |-> payment_result,
                        order_summary |-> [cart |-> cart, totals |-> totals,
                                           customer |-> req.customer]]))
    /\ CARTS' = Put(CARTS, req.cart_id, [cart EXCEPT !.items = <<>>])
    /\ UNCHANGED <<ORDERS, uuids>>

\* The branch for a payment that is not approved: nothing is stored.
place_order_declined(req, cart, totals, payment_result) ==
    /\ resp' = Response("place_order", [cart_id |-> req.cart_id],
                Return([ok |-> FALSE, message |-> "Payment declined",
                        payment |-> payment_result,
                        order_summary |-> [cart |-> cart, totals |-> totals,
                                           customer |-> req.customer]]))
    /\ UNCHANGED <<CARTS, ORDERS, uuids>>

\* The branch for an approved payment: the order is stored, the cart cleared.
place_order_approved(req, now, cart, totals, payment_result) ==
    LET drawn == uuids + AuthDraws(req.payment) + 1
        order_id == new_order_id(drawn, req)
        summary == order_summary(order_id, now, req, cart, totals, payment_result)
    IN  /\ uuids' = drawn
        /\ IF summary.exc
           THEN /\ resp' = Response("place_order", [cart_id |-> req.cart_id], summary)
                /\ UNCHANGED <<CARTS, ORDERS>>
           ELSE /\ ORDERS' = Put(ORDERS, order_id, summary.value)
                /\ CARTS' = Put(CARTS, req.cart_id, [cart EXCEPT !.items = <<>>])
                /\ resp' = Response("place_order", [cart_id |-> req.cart_id],
                                    Return([ok |-> TRUE, order_summary |-> summary.value]))

place_order(req, now) ==
    /\ Handled
    /\ IF req.cart_id \notin DOMAIN CARTS
       THEN /\ resp' = Response("place_order", [cart_id |-> req.cart_id],
                                HTTPException(404, <<"Cart not found">>))
            /\ UNCHANGED <<CARTS, ORDERS, uuids>>
       ELSE IF CARTS[req.cart_id].items = <<>>
       THEN /\ resp' = Response("place_order", [cart_id |-> req.cart_id],
                                HTTPException(400, <<"Cart is empty">>))
            /\ UNCHANGED <<CARTS, ORDERS, uuids>>
       ELSE LET cart == CARTS[req.cart_id]
                totals == compute_totals(cart)
                payment_result == mock_authorize(req.payment, totals.value.total, now, uuids + 1)
            IN  IF totals.exc
                THEN /\ resp' = Response("place_order", [cart_id |-> req.cart_id], totals)
                     /\ UNCHANGED <<CARTS, ORDERS, uuids>>
                ELSE IF payment_result.exc
                THEN /\ resp' = Response("place_order", [cart_id |-> req.cart_id], payment_result)
                     /\ UNCHANGED <<CARTS, ORDERS, uuids>>
                ELSE IF payment_result.value.status # "approved"
                THEN place_order_declined(req, cart, totals.value, payment_result.value)
                ELSE place_order_approved(req, now, cart, totals.value, payment_result.value)

\* ORDERS.get(order_id), or 404
lookup_order(orders, order_id) ==
    IF order_id \notin DOMAIN orders THEN HTTPException(404, <<"Order not found">>)
    ELSE Return(orders[order_id])

get_order(order_id) ==
    /\ Handled
    /\ resp' = Response("get_order", [order_id |-> order_id], lookup_order(ORDERS, order_id))
    /\ UNCHANGED <<CARTS, ORDERS, uuids>>

Next ==
    \/ create_cart
    \/ \E cart_id \in CartIdInputs : get_cart(cart_id)
    \/ \E cart_id \in CartIdInputs, item \in PizzaItemInputs : add_pizza(cart_id, item)
    \/ \E cart_id \in CartIdInputs, item \in DrinkItemInputs : add_drink(cart_id, item)
    \/ \E cart_id \in CartIdInputs :
          \E index \in IndexInputs(cart_id), qty \in UpdateQtyInputs :
              update_qty(cart_id, index, qty)
    \/ \E cart_id \in CartIdInputs :
          \E index \in IndexInputs(cart_id) : remove_item(cart_id, index)
    \/ \E cart_id \in CartIdInputs : clear_cart(cart_id)
    \/ \E req \in PlaceOrderRequests, now \in Clocks : place_order(req, now)
    \/ \E order_id \in OrderIdInputs : get_order(order_id)

Spec == Init /\ [][Next]_vars


\* ------------------------------------------------------------------ claims
\* The step just taken handled a request (the response in resp' is its).
Answered == calls' # calls

IsDeclined(r) ==
    r.op = "place_order" /\ r.status_code = 200 /\ ~r.body.ok
    /\ r.body.payment.status = "declined"

IsPlaced(r) == r.op = "place_order" /\ r.status_code = 200 /\ r.body.ok

\* C1: a place-order call on a non-empty cart whose payment is declined
\* leaves every cart (the cart's items in particular, still non-empty) and
\* the order ledger as they were: no order identifier becomes retrievable.
C1_DeclinedKeepsCartAndLedger ==
    [][(Answered /\ IsDeclined(resp')) =>
          LET c == resp'.req.cart_id
          IN  /\ c \in DOMAIN CARTS /\ c \in DOMAIN CARTS'
              /\ CARTS[c].items # <<>>
              /\ CARTS'[c].items = CARTS[c].items
              /\ ORDERS' = ORDERS
              /\ \A o \in DOMAIN ORDERS' \cup {<<"order_", uuids + 1>>, <<"order_", uuids + 2>>} :
                    lookup_order(ORDERS', o) = lookup_order(ORDERS, o)]_vars

C1_Witness == IsDeclined(resp) /\ ORDERS # <<>>

\* An order item without the two price fields place_order attaches.
Unpriced(d) == [f \in DOMAIN d \ {"unit_price", "line_total"} |-> d[f]]

\* C2: a place-order call on a non-empty cart whose payment is approved
\* (a) empties the cart, which stays retrievable, (b) stores exactly one new
\* order, with status "placed", under the returned identifier, and (c)
\* getOrder on that identifier returns the totals computed from the cart
\* right before the call and the cart's items of that moment, in order.
C2_ApprovedStoresOrderAndEmptiesCart ==
    [][(Answered /\ IsPlaced(resp')) =>
          LET c == resp'.req.cart_id
              order_id == resp'.body.order_summary.order_id
              got == lookup_order(ORDERS', order_id)
          IN  /\ c \in DOMAIN CARTS /\ CARTS[c].items # <<>>
              /\ c \in DOMAIN CARTS' /\ CARTS'[c] = [cart_id |-> c, items |-> <<>>]
              /\ order_id \notin DOMAIN ORDERS
              /\ DOMAIN ORDERS' = DOMAIN ORDERS \cup {order_id}
              /\ \A o \in DOMAIN ORDERS : ORDERS'[o] = ORDERS[o]
              /\ ~got.exc
              /\ got.value.status = "placed"
              /\ got.value.order_id = order_id
              /\ got.value.totals = compute_totals(CARTS[c]).value
              /\ Len(got.value.items) = Len(CARTS[c].items)
              /\ \A i \in DOMAIN CARTS[c].items :
                    /\ DOMAIN got.value.items[i] =
                          DOMAIN CARTS[c].items[i] \cup {"unit_price", "line_total"}
                    /\ Unpriced(got.value.items[i]) = CARTS[c].items[i]]_vars

C2_Witness ==
    /\ IsPlaced(resp)
    /\ Len(resp.body.order_summary.items) >= 2
    /\ CARTS[resp.req.cart_id].items = <<>>

\* C3: a request that ends in an error (NotFound, InvalidIndex,
\* InvalidTopping, InvalidDrinkSelection, EmptyCart, MissingPaymentFields,
\* MissingGiftCardCode) leaves every cart and the whole ledger as they were.
C3_ErrorsChangeNothing ==
    [][(Answered /\ resp'.status_code # 200) => (CARTS' = CARTS /\ ORDERS' = ORDERS)]_vars

C3_Witness ==
    /\ resp.op = "add_drink" /\ resp.status_code = 400
    /\ CARTS[resp.req.cart_id].items # <<>>
    /\ ORDERS # <<>>

\* C4: an order, once stored, stays retrievable under its identifier and
\* getOrder returns it unchanged, whatever is done afterwards.
C4_OrdersNeverChange ==
    [][\A o \in DOMAIN ORDERS : lookup_order(ORDERS', o) = Return(ORDERS[o])]_vars

C4_Witness ==
    \E o1, o2 \in DOMAIN ORDERS :
        /\ o1 # o2
        /\ ORDERS[o1].items # ORDERS[o2].items

\* C6: removeItem(cart_id, index) on an existing cart of n items fails with
\* InvalidIndex when index >= n; otherwise it removes exactly the item at
\* index: n - 1 items remain, those before index stay in place, those
\* after it move down by one; the other carts are unchanged.
C6_RemoveItemShiftsDown ==
    [][(Answered /\ resp'.op = "remove_item" /\ resp'.req.cart_id \in DOMAIN CARTS) =>
          LET c == resp'.req.cart_id
              index == resp'.req.index
              old == CARTS[c].items
              new == CARTS'[c].items
              n == Len(old)
          IN  IF index >= n
              THEN /\ resp'.status_code = 400
                   /\ resp'.body.detail = <<"Invalid index">>
                   /\ CARTS' = CARTS
              ELSE /\ resp'.status_code = 200
                   /\ Len(new) = n - 1
                   /\ \A j \in 0..(n - 1) :
                         /\ j < index => new[j + 1] = old[j + 1]
                         /\ j > index => new[j] = old[j + 1]
                   /\ DOMAIN CARTS' = DOMAIN CARTS
                   /\ \A other \in DOMAIN CARTS \ {c} : CARTS'[other] = CARTS[other]]_vars

C6_Witness ==
    /\ resp.op = "remove_item" /\ resp.status_code = 200 /\ resp.req.index = 1
    /\ Len(CARTS[resp.req.cart_id].items) = 2
    /\ CARTS[resp.req.cart_id].items[1] # CARTS[resp.req.cart_id].items[2]

RECURSIVE SumLineTotals(_)
SumLineTotals(items) ==
    IF items = <<>> THEN 0 ELSE Head(items).line_total + SumLineTotals(Tail(items))

Abs(n) == IF n < 0 THEN -n ELSE n

\* Priced items and totals that agree, in cents: line total = unit price *
\* quantity, subtotal = sum of the line totals, tax within half a cent of
\* subtotal * 8.25%, total = subtotal + tax.
TotalsAgree(items, totals) ==
    /\ \A i \in DOMAIN items : items[i].line_total = items[i].unit_price * items[i].qty
    /\ totals.subtotal = SumLineTotals(items)
    /\ 2 * Abs(10000 * totals.tax - 825 * totals.subtotal) <= 10000
    /\ totals.total = totals.subtotal + totals.tax

\* One line of a small, thin-crust, normal-cheese pizza without toppings, twice.
IsTwoPlainPizzas(items) ==
    /\ Len(items) = 1
    /\ items[1].kind = "pizza" /\ items[1].qty = 2
    /\ items[1].customization.size = "small" /\ items[1].customization.crust = "thin"
    /\ items[1].customization.cheese = "normal" /\ items[1].customization.toppings = <<>>
    /\ items[1].customization.crust_flavor = "none"
    /\ items[1].customization.drizzle = "none"

ExampleTotals == [subtotal |-> 2000, tax |-> 165, total |-> 2165]

\* C9: in whole cents, for every cart (as get_cart prices it) and every
\* stored order: line total = unit price * quantity, subtotal = sum of the
\* line totals, tax = subtotal * 8.25% to the nearest cent, total =
\* subtotal + tax; one line of two plain small pizzas comes to 20.00, 1.65
\* and 21.65.
C9_TotalsAgreeWithLines ==
    /\ \A c \in DOMAIN CARTS :
          LET view == enrich_items_with_prices(CARTS[c])
              totals == compute_totals(CARTS[c])
          IN  /\ ~view.exc /\ ~totals.exc
              /\ TotalsAgree(view.value.items, totals.value)
              /\ IsTwoPlainPizzas(CARTS[c].items) => totals.value = ExampleTotals
    /\ \A o \in DOMAIN ORDERS :
          /\ TotalsAgree(ORDERS[o].items, ORDERS[o].totals)
          /\ IsTwoPlainPizzas(ORDERS[o].items) => ORDERS[o].totals = ExampleTotals

C9_Witness ==
    /\ \E o \in DOMAIN ORDERS : IsTwoPlainPizzas(ORDERS[o].items)
    /\ \E c \in DOMAIN CARTS : Len(CARTS[c].items) >= 2

NoDuplicates(s) == \A i, j \in DOMAIN s : s[i] = s[j] => i = j

WellFormed(item) ==
    /\ item.qty \in 1..20
    /\ item.kind = "drink" => item.drink \in DrinkType \ {"none"}
    /\ item.kind = "pizza" =>
          /\ Range(item.customization.toppings) \subseteq Range(TOPPINGS)
          /\ NoDuplicates(item.customization.toppings)

\* C10: in every reachable state every item of every cart is well-formed: no
\* drink of type "none", every pizza's toppings catalog names without
\* duplicates, every quantity between 1 and 20.
C10_CartItemsWellFormed ==
    \A c \in DOMAIN CARTS : \A i \in DOMAIN CARTS[c].items : WellFormed(CARTS[c].items[i])

C10_Witness ==
    \E c \in DOMAIN CARTS :
        /\ \E i \in DOMAIN CARTS[c].items :
              /\ CARTS[c].items[i].kind = "pizza"
              /\ CARTS[c].items[i].customization.toppings = <<"pepperoni", "bacon">>
              /\ CARTS[c].items[i].qty = 20
        /\ \E i \in DOMAIN CARTS[c].items : CARTS[c].items[i].kind = "drink"


\* ------------------------------------------------ mock_authorize on cards
\* Card numbers of 12 characters and more (min_length=12): a head of eight
\* characters and every tail over a digit 0, another digit and a separator.
CardChars == {"0", "7", "-"}
CardHeads ==
    { <<"-", "-", "-", "-", "-", "-", "-", "-">>,
      <<"4", "1", "1", "1", "-", "1", "1", "0">> }

AuthPayments ==
    {[GoodCard EXCEPT !.card_number = Some(h \o tl), !.exp_month = Some(m), !.exp_year = Some(y)] :
        h \in CardHeads, tl \in [1..CardTailLen -> CardChars],
        m \in {1, 6, 12}, y \in {2025, 2026, 2027}}

AuthClocks == {[year |-> 2026, month |-> m] : m \in {1, 6, 12}}

InitAuth ==
    /\ EmptyStores /\ NoRequests /\ NoThreads /\ NoValCall
    /\ authPayment \in AuthPayments
    /\ authNow \in AuthClocks
    /\ authResult = Pending

Authorize ==
    /\ IsPending(authResult)
    /\ authResult' = mock_authorize(authPayment, 2165, authNow, 1)
    /\ UNCHANGED <<storeVars, threads, valVars, authPayment, authNow>>

NextAuth == Authorize

SpecAuth == InitAuth /\ [][NextAuth]_vars

\* The card's expiry lies strictly before the clock reading, year first.
Expired(payment, now) ==
    \/ payment.exp_year[1] < now.year
    \/ (payment.exp_year[1] = now.year /\ payment.exp_month[1] < now.month)

LastFour(digits) == SubSeq(digits, Len(digits) - 3, Len(digits))

\* What the claim says of a card payment's result, but for an approval's
\* card_last4: Card expired exactly when expired, else declined on 0000.
CardDecision(payment, now, result, last4_ok) ==
    LET digits == normalized_card_digits(payment)
    IN  /\ ~result.exc
        /\ IF Expired(payment, now)
           THEN result.value = [status |-> "declined", reason |-> "Card expired"]
           ELSE IF Len(digits) >= 4 /\ LastFour(digits) = <<"0", "0", "0", "0">>
           THEN result.value.status = "declined" /\ result.value.reason # "Card expired"
           ELSE result.value.status = "approved" /\ last4_ok

\* C7 as stated: for every card payment with all required fields, authorize
\* declines with "Card expired" exactly when (exp_year, exp_month) is
\* strictly before the current (year, month); otherwise declines when the
\* digits end in 0000; otherwise approves with card_last4 the last 4 digits
\* of the card number.
C7_Original ==
    ~IsPending(authResult) =>
        LET digits == normalized_card_digits(authPayment)
        IN  CardDecision(authPayment, authNow, authResult,
                         Len(digits) >= 4 /\ authResult.value.card_last4 = LastFour(digits))

\* C7 as amended: the same, with card_last4 the last 4 digits of the card
\* number when it holds at least 4 digits, and "????" when it holds fewer.
C7_CardDecision ==
    ~IsPending(authResult) =>
        LET digits == normalized_card_digits(authPayment)
        IN  CardDecision(authPayment, authNow, authResult,
                         authResult.value.card_last4 =
                             IF Len(digits) >= 4 THEN LastFour(digits)
                             ELSE <<"?", "?", "?", "?">>)

\* A card in its month of expiry, approved with its last four digits.
C7_Witness ==
    /\ ~IsPending(authResult)
    /\ authPayment.exp_year[1] = authNow.year /\ authPayment.exp_month[1] = authNow.month
    /\ authResult.value.status = "approved"
    /\ authResult.value.card_last4 = <<"0", "7", "0", "7">>

\* ------------------------------------------------------ validate_toppings
ToppingNameInputs == {"pepperoni", "bacon", "tomatoes", "anchovy", "kale"}

ToppingListInputs == UNION {[1..n -> ToppingNameInputs] : n \in 0..MaxToppings}

InitToppings ==
    /\ EmptyStores /\ NoRequests /\ NoThreads /\ NoAuthCall
    /\ valInput \in ToppingListInputs
    /\ valFirst = Pending
    /\ valSecond = Pending

\* validate_toppings on the input.
Validate ==
    /\ IsPending(valFirst)
    /\ valFirst' = validate_toppings(valInput)
    /\ UNCHANGED <<storeVars, threads, authVars, valInput, valSecond>>

\* validate_toppings on the list a first validation returned.
Revalidate ==
    /\ ~IsPending(valFirst) /\ ~valFirst.exc
    /\ IsPending(valSecond)
    /\ valSecond' = validate_toppings(valFirst.value)
    /\ UNCHANGED <<storeVars, threads, authVars, valInput, valFirst>>

NextToppings == Validate \/ Revalidate

SpecToppings == InitToppings /\ [][NextToppings]_vars

\* The positions of s that hold the first occurrence of their entry.
FirstOccurrences(s) == {i \in DOMAIN s : \A j \in 1..(i - 1) : s[j] # s[i]}

\* out lists the distinct entries of s, each at the rank of its first
\* occurrence.
IsFirstOccurrenceList(out, s) ==
    /\ Len(out) = Cardinality(FirstOccurrences(s))
    /\ \A i \in FirstOccurrences(s) :
          out[Cardinality({j \in FirstOccurrences(s) : j <= i})] = s[i]

\* C8: validation fails with InvalidTopping naming the leftmost entry outside
\* the catalog if there is one; otherwise it returns the distinct names of
\* the input, each at the relative position of its first occurrence; and
\* validating that result again returns it unchanged.
C8_ValidateToppings ==
    /\ ~IsPending(valFirst) =>
          LET unknown == {i \in DOMAIN valInput : valInput[i] \notin Range(TOPPINGS)}
          IN  IF unknown # {}
              THEN /\ valFirst.exc
                   /\ valFirst.detail =
                         <<"Invalid topping",
                           valInput[CHOOSE i \in unknown : \A j \in unknown : i <= j]>>
              ELSE /\ ~valFirst.exc
                   /\ IsFirstOccurrenceList(valFirst.value, valInput)
    /\ ~IsPending(valSecond) => valSecond = valFirst

C8_Witness ==
    /\ valInput = <<"pepperoni", "pepperoni", "bacon">>
    /\ valFirst = Return(<<"pepperoni", "bacon">>)
    /\ valSecond = valFirst

\* ------------------------------------------- place_order requests in flight
\* The handlers are plain functions, which the server runs in worker
\* threads: two place_order requests can be in flight at once, and nothing in
\* place_order stops a thread between two of its statements.  A thread's
\* frame holds its locals; cart is a reference to the stored Cart object, so
\* what a thread reads of the cart is what CARTS holds at that moment.
Threads == {1, 2}

ApprovingPayments ==
    { NoPayment,
      [NoPayment EXCEPT !.method = "giftcard", !.code = Some(<<"g","o","l","d">>)],
      GoodCard }

\* Items as add_pizza and add_drink store them.
PlainItem == [kind |-> "pizza", name |-> "Custom Pizza", customization |-> PlainCustom, qty |-> 2]
WaterItem == [kind |-> "drink", drink |-> "water", qty |-> 1]

StoredCart == <<"cart_", 1>>

InitConc ==
    /\ CARTS \in {(StoredCart :> [cart_id |-> StoredCart, items |-> items]) :
                    items \in {<<PlainItem>>, <<PlainItem, WaterItem>>}}
    /\ ORDERS = <<>>
    /\ uuids = 1
    /\ NoRequests /\ NoAuthCall /\ NoValCall
    /\ threads \in [Threads ->
            {[pc |-> "start", req |-> [cart_id |-> StoredCart, customer |-> cu, payment |-> p],
              totals |-> None, payment_result |-> None, response |-> NoResponse] :
                cu \in CustomerInputs, p \in ApprovingPayments}]

Frame(t) == threads[t]

Finish(t, op, req, result) ==
    [threads EXCEPT ![t].pc = "done", ![t].response = Response(op, req, result)]

\* cart = CARTS.get(req.cart_id) and the two checks on it.
t_fetch(t) ==
    LET req == Frame(t).req
    IN  /\ Frame(t).pc = "start"
        /\ threads' =
              IF req.cart_id \notin DOMAIN CARTS
              THEN Finish(t, "place_order", [cart_id |-> req.cart_id],
                          HTTPException(404, <<"Cart not found">>))
              ELSE IF CARTS[req.cart_id].items = <<>>
              THEN Finish(t, "place_order", [cart_id |-> req.cart_id],
                          HTTPException(400, <<"Cart is empty">>))
              ELSE [threads EXCEPT ![t].pc = "fetched"]
        /\ UNCHANGED <<storeVars, authVars, valVars>>

\* totals = compute_totals(cart)
t_totals(t) ==
    LET req == Frame(t).req
        totals == compute_totals(CARTS[req.cart_id])
    IN  /\ Frame(t).pc = "fetched"
        /\ threads' =
              IF totals.exc THEN Finish(t, "place_order", [cart_id |-> req.cart_id], totals)
              ELSE [threads EXCEPT ![t].pc = "totalled", ![t].totals = Some(totals.value)]
        /\ UNCHANGED <<storeVars, authVars, valVars>>

\* payment_result = mock_authorize(req.payment, totals["total"]) and the
\* return of a payment that is not approved.
t_authorize(t, now) ==
    LET req == Frame(t).req
        totals == Frame(t).totals[1]
        payment_result == mock_authorize(req.payment, totals.total, now, uuids + 1)
    IN  /\ Frame(t).pc = "totalled"
        /\ IF payment_result.exc
           THEN /\ threads' = Finish(t, "place_order", [cart_id |-> req.cart_id], payment_result)
                /\ UNCHANGED uuids
           ELSE IF payment_result.value.status # "approved"
           THEN /\ threads' = Finish(t, "place_order", [cart_id |-> req.cart_id],
                        Return([ok |-> FALSE, message |-> "Payment declined",
                                payment |-> payment_result.value,
                                order_summary |-> [cart |-> CARTS[req.cart_id], totals |-> totals,
                                                   customer |-> req.customer]]))
                /\ UNCHANGED uuids
           ELSE /\ threads' = [threads EXCEPT ![t].pc = "authorized",
                                              ![t].payment_result = Some(payment_result.value)]
                /\ uuids' = uuids + AuthDraws(req.payment)
        /\ UNCHANGED <<CARTS, ORDERS, resp, calls, authVars, valVars>>

\* order_id, summary and ORDERS[order_id] = summary
t_store(t, now) ==
    LET req == Frame(t).req
        order_id == new_order_id(uuids + 1, req)
        summary == order_summary(order_id, now, req, CARTS[req.cart_id],
                                 Frame(t).totals[1], Frame(t).payment_result[1])
    IN  /\ Frame(t).pc = "authorized"
        /\ uuids' = uuids + 1
        /\ IF summary.exc
           THEN /\ threads' = Finish(t, "place_order", [cart_id |-> req.cart_id], summary)
                /\ UNCHANGED ORDERS
           ELSE /\ ORDERS' = Put(ORDERS, order_id, summary.value)
                /\ threads' = [threads EXCEPT ![t].pc = "stored",
                                   ![t].response = Response("place_order",
                                        [cart_id |-> req.cart_id],
                                        Return([ok |-> TRUE, order_summary |-> summary.value]))]
        /\ UNCHANGED <<CARTS, resp, calls, authVars, valVars>>

\* cart.items = [] and the return
t_clear(t) ==
    LET req == Frame(t).req
    IN  /\ Frame(t).pc = "stored"
        /\ CARTS' = Put(CARTS, req.cart_id, [CARTS[req.cart_id] EXCEPT !.items = <<>>])
        /\ threads' = [threads EXCEPT ![t].pc = "done"]
        /\ UNCHANGED <<ORDERS, uuids, resp, calls, authVars, valVars>>

NextConc ==
    \/ \E t \in Threads : t_fetch(t)
    \/ \E t \in Threads : t_totals(t)
    \/ \E t \in Threads, now \in Clocks : t_authorize(t, now)
    \/ \E t \in Threads, now \in Clocks : t_store(t, now)
    \/ \E t \in Threads : t_clear(t)

SpecConc == InitConc /\ [][NextConc]_vars

\* C5: of two place-order requests with approving payments running at once
\* against the same non-empty cart, at most one creates an order.
C5_AtMostOneOrder == Cardinality(DOMAIN ORDERS) <= 1


=============================================================================
